---- MODULE Spec2Model ----
(***************************************************************************)
(* State-machine model of the p2plending repository: loan requests,        *)
(* contracts, signing, payment schedules, installment payments, early      *)
(* payoff and the legacy repayment path.                                   *)
(*                                                                         *)
(* Database rows are the state.  Django runs in autocommit mode unless a   *)
(* block is wrapped in transaction.atomic(), so a handler that is not      *)
(* wrapped is modelled as one step per committed write where another       *)
(* request can observe the intermediate rows (sign_contract), and a        *)
(* handler wrapped in atomic() with select_for_update is one step.         *)
(*                                                                         *)
(* Money is in VND (whole units).  Dates are day numbers.                  *)
(***************************************************************************)
EXTENDS Integers, Sequences, FiniteSets, TLC

(* ------------------------------ bounds -------------------------------- *)
MaxDay == 40
MaxTxns == 2
MaxBorrowerBalance == 3400000
MaxEvidence == 2
MaxReminders == 2
MaxRowCount == 4

(* ------------------------- program constants -------------------------- *)
DaysPerInstallment == 30
LateFeeDivisor == 2000
MonthsPerYearPct == 1200

(* --------------------------- input domains ---------------------------- *)
Borrower == "borrower"
Lenders == {"lender"}
Users == {Borrower} \cup Lenders
LoanAmounts == {2400000}
InterestRates == {12}
Durations == {1, 2}
TickSteps == {40}
PaymentMethods == {"WALLET", "BANK_TRANSFER"}
LegacyTotals == {1000000}
InitialBalance == [u \in Users |-> IF u = Borrower THEN 1000000 ELSE 2400000]
Parties == {"borrower", "lender"}
ResolutionTypes == {"FAVOR_COMPLAINANT", "COMPROMISE"}
ResolutionNotes == {"note1", "note2"}
RefundAmounts == {0, 100000}
InvestThreads == {"t1", "t2"}
MainInvestThreads == {"t1"}
PoolUsers == {Borrower, "l1", "l2"}
ProfileKinds == {"fit", "small", "picky", "edge", "far"}
PoolChoices == [u \in PoolUsers |->
                  CASE u = Borrower -> {"fit"}
                    [] u = "l1" -> {"fit", "small", "far"}
                    [] OTHER -> {"fit", "picky", "edge"}]
AgentThreads == {"a1", "a2"}
MainAgentThreads == {"a1"}
MatchThreads == {"svc"} \cup AgentThreads
KycFactors == {0, 100}
MonthlyIncomes == {0, 5000000, 10000000, 20000000}
ScoreThreads == {"s1", "s2"}
MainScoreThreads == {"s1"}
CollaboratorFaults == {"unavailable", "unparseable"}
SchedulePrincipals == {-100, 0, 100, 102, 103}
ScheduleRates == {0, 24}
ScheduleMonths == {-1, 0, 1, 2, 3, 4}
PaymentPlans == {"EQUAL_PRINCIPAL", "EQUAL_PAYMENT"}
InstallmentTotals == {1000000, 1010000, 1011010, 1212000, 2424000}
DaysPastDue == {-2, -1, 0, 1, 2, 10}
LateFeeReaders == {"process_payment", "get_pending_payments",
                   "get_overdue_payments"}
PayThreads == {"p1", "p2"}
WalletAmounts == {0, 1000000}
DisputeTypes == {"PAYMENT", "LATE_PAYMENT", "WRONG_AMOUNT", "CONTRACT_TERMS",
                 "CONTRACT_VIOLATION", "FRAUD", "OTHER"}
LlmScores == {500, 1200}
LlmRiskLevels == {"MEDIUM", "LOW"}
InitialFacts == [kyc |-> 100, monthly_income |-> 0, past_loans |-> 0]

VARIABLES today, balance, loan, contract, sched, legacy, txns, signer, last,
          investor, dispute, evidence, notifications, monitor_day,
          pool, rows, matcher, facts, risk_profile, scorer, runs,
          req, resp, paying

vars == <<today, balance, loan, contract, sched, legacy, txns, signer, last,
          investor, dispute, evidence, notifications, monitor_day,
          pool, rows, matcher, facts, risk_profile, scorer, runs,
          req, resp, paying>>

\* The rows of the lending core without the last call's result, and the
\* rows of the other subsystems.
lending == <<today, balance, loan, contract, sched, legacy, txns, signer,
             investor>>
dvars == <<dispute, evidence>>
nvars == <<notifications, monitor_day>>
mvars == <<pool, rows, matcher>>
rvars == <<facts, risk_profile, scorer, runs>>
\* A call of one of the tool functions that read no row: its arguments and
\* the value it returned.
tvars == <<req, resp>>
aux == <<dvars, nvars, mvars, rvars, tvars, paying>>
others_d == <<nvars, mvars, rvars, tvars, paying>>
others_n == <<dvars, mvars, rvars, tvars, paying>>
others_m == <<dvars, nvars, rvars, tvars, paying>>
others_r == <<dvars, nvars, mvars, tvars, paying>>

(* ------------------------------ helpers ------------------------------- *)
RECURSIVE GCD(_, _)
GCD(a, b) == IF b = 0 THEN a ELSE GCD(b, a % b)

\* Python round(x, 0) on num/den (den > 0, num >= 0): round half to even.
RoundHalfEven(num, den) ==
    LET q == num \div den
        r == num % den
    IN  IF 2 * r < den THEN q
        ELSE IF 2 * r > den THEN q + 1
        ELSE IF q % 2 = 0 THEN q ELSE q + 1

NoRow == [status |-> "NONE", paid_amount |-> 0, paid_date |-> -1,
          late_fee |-> 0, late_days |-> 0]

NoContract == [exists |-> FALSE, kind |-> "NONE", lender |-> "NONE",
               principal |-> 0, rate |-> 0, months |-> 0, start_date |-> 0,
               borrower_signed |-> FALSE, lender_signed |-> FALSE,
               status |-> "NONE", is_active |-> FALSE]

NoLoan == [status |-> "NONE", amount |-> 0, rate |-> 0, duration |-> 0]

Idle == [pc |-> "idle", copy |-> NoContract, next |-> 0]

NoCall == [op |-> "none", result |-> "none"]

NoDispute == [status |-> "NONE", resolution |-> "NONE",
              resolution_type |-> "NONE", refund_amount |-> 0,
              resolution_notes |-> "NONE"]

NoPay == [pc |-> "idle", schedule |-> 0, profile_balance |-> 0]

NoInvest == [pc |-> "idle", lender |-> "NONE", profile_balance |-> 0,
             borrower_balance |-> 0]

\* LenderMatchResult.match_score is kept in tenths of a point; NoMatch is
\* the absence of the (loan_request, lender) row.
NoMatch == -1

\* A matching run in flight: its position in _save_matches /
\* save_match_results, the list it computed and the next list item to insert.
NoRun == [pc |-> "idle", kind |-> "none", matches |-> <<>>, next |-> 0,
          result |-> "none"]

NoReq == [op |-> "none"]
NoResp == [status |-> "none"]

NoRiskProfile == [exists |-> FALSE, credit_score |-> 0, risk_level |-> "NONE"]

\* A profiler run in flight: the values it computed and its AgentLog row.
NoScoring == [pc |-> "idle", credit_score |-> 0, risk_level |-> "NONE",
              log |-> 0]

\* The result returned by the most recent investment, signing or payment
\* call (the calls whose results the properties below speak about).
Call(op, result) == [op |-> op, result |-> result]

MaxMonths == CHOOSE m \in Durations : \A d \in Durations : d <= m

Installments == 1..MaxMonths

(* calculate_loan_schedule, EQUAL_PRINCIPAL branch: item `month` of the     *)
(* schedule for (principal, interest_rate, duration_months).                *)
calculate_loan_schedule(principal, interest_rate, duration_months, month) ==
    LET g == GCD(interest_rate, MonthsPerYearPct)
        rn == interest_rate \div g          \* monthly_rate = rn / rd
        rd == MonthsPerYearPct \div g
        left == duration_months - month + 1 \* remaining = principal*left/n
    IN  [month |-> month,
         principal_payment |-> RoundHalfEven(principal, duration_months),
         interest_payment |->
             RoundHalfEven(principal * left * rn, duration_months * rd),
         total_payment |->
             RoundHalfEven(principal * (rd + left * rn), duration_months * rd)]

\* The schedules _create_payment_schedule computes, one per contract terms.
LoanSchedule ==
    [p \in LoanAmounts, r \in InterestRates, n \in Durations |->
        [k \in 1..n |-> calculate_loan_schedule(p, r, n, k)]]

\* Fields of the PaymentSchedule row `k` that _create_payment_schedule fixes.
ScheduleItem(k) ==
    LoanSchedule[contract.principal, contract.rate, contract.months][k]

total_amount(k) == ScheduleItem(k).total_payment
principal_amount(k) == ScheduleItem(k).principal_payment
interest_amount(k) == ScheduleItem(k).interest_payment
due_date(k) == contract.start_date + k * DaysPerInstallment

\* late_days / late_fee as process_payment computes them on day `d`.
LateDays(k, d) == IF due_date(k) < d THEN d - due_date(k) ELSE 0
LateFee(k, d) == (total_amount(k) * LateDays(k, d)) \div LateFeeDivisor
\* Variant of TotalDue that leaves the late fee out of what is owed.
TotalDueWithoutLateFee(k, d) == total_amount(k)
TotalDue(k, d) == total_amount(k) + LateFee(k, d)

RowExists(k) == sched[k].status # "NONE"
PendingRows == {k \in Installments : sched[k].status = "PENDING"}
NoLegacy == [state |-> "NONE", amount_due |-> 0]
LegacyUnpaid == {k \in Installments : legacy[k].state = "UNPAID"}

\* user/models.py UserProfile declares the wallet as `balance`; it has no
\* `wallet_balance` attribute, which process_payment and early_payoff read.
HasWalletBalanceField == FALSE

\* ai_agents/agents/__init__.py exports payment_monitor_new.PaymentMonitorAgent
\* as PaymentMonitorAgent; that class does not define mark_payment_completed
\* (only the legacy class in payment_monitor.py does).
AgentHasMarkPaymentCompleted == FALSE

Txn(type, k, payer, recipient, amount, fee, days, method) ==
    [transaction_type |-> type, payment_schedule |-> k, payer |-> payer,
     recipient |-> recipient, amount |-> amount, late_fee |-> fee,
     late_days |-> days, payment_method |-> method]

\* Sum of the function f over the finite set S of its arguments.
RECURSIVE SumOver(_, _)
SumOver(S, f) ==
    IF S = {} THEN 0
    ELSE LET x == CHOOSE y \in S : TRUE IN f[x] + SumOver(S \ {x}, f)

\* calculate_early_payoff: the quote over the PENDING rows on day `d`
\* (remaining principal + 50% of remaining interest + late fees).
calculate_early_payoff(d) ==
    LET fee == [k \in PendingRows |->
                  IF due_date(k) < d THEN LateFee(k, d) ELSE 0]
        total_principal ==
            SumOver(PendingRows, [k \in PendingRows |-> principal_amount(k)])
        total_interest ==
            SumOver(PendingRows, [k \in PendingRows |-> interest_amount(k)])
        discounted_interest == total_interest \div 2
    IN  [remaining_installments |-> Cardinality(PendingRows),
         total_payoff_amount |->
             total_principal + discounted_interest + SumOver(PendingRows, fee),
         savings |-> total_interest - discounted_interest]

(* ------------------------------- Init --------------------------------- *)
\* The rows of every table after construction.
InitRows ==
    /\ today = 0
    /\ balance = InitialBalance
    /\ loan = NoLoan
    /\ contract = NoContract
    /\ sched = [k \in Installments |-> NoRow]
    /\ legacy = [k \in Installments |-> NoLegacy]
    /\ txns = <<>>
    /\ signer = [p \in Parties |-> Idle]
    /\ last = NoCall
    /\ investor = [t \in InvestThreads |-> NoInvest]
    /\ dispute = NoDispute
    /\ evidence = 0
    /\ notifications = [k \in Installments |-> 0]
    /\ monitor_day = -1
    /\ pool = [u \in PoolUsers |-> "none"]
    /\ rows = [u \in PoolUsers |-> NoMatch]
    /\ matcher = [t \in MatchThreads |-> NoRun]
    /\ facts = InitialFacts
    /\ risk_profile = NoRiskProfile
    /\ scorer = [t \in ScoreThreads |-> NoScoring]
    /\ runs = <<>>
    /\ paying = [t \in PayThreads |-> NoPay]

Init ==
    /\ InitRows
    /\ req = NoReq
    /\ resp = NoResp

(* ------------------------------ actions ------------------------------- *)
\* The calendar advances.  Only handlers of a contract made by
\* create_contract_record read datetime.now().date(), and they use it relative
\* to the contract's start_date, so days before the contract exists are not
\* counted.
Tick ==
    /\ contract.kind = "NEW"
    /\ \E d \in TickSteps :
          /\ today + d <= MaxDay
          /\ today' = today + d
    /\ UNCHANGED <<balance, loan, contract, sched, legacy, txns, signer, last>>
    /\ UNCHANGED <<investor, aux>>

(* --------------------------- risk scoring ----------------------------- *)
\* BorrowerProfilerAgent.assess_risk.  f holds the borrower facts the run
\* read: f.kyc is 100 when kyc_status is VERIFIED and otherwise the OCR
\* match score (0 when absent); ln is the loan request passed to the run
\* (NoLoan when the run has none).
income_stability(f) ==
    IF f.monthly_income = 0 THEN 0
    ELSE IF f.monthly_income >= 20000000 THEN 100
    ELSE IF f.monthly_income >= 10000000 THEN 80
    ELSE IF f.monthly_income >= 5000000 THEN 60
    ELSE 40

loan_history(f) ==
    IF f.past_loans > 0
      THEN (IF 60 + f.past_loans * 10 < 100 THEN 60 + f.past_loans * 10 ELSE 100)
      ELSE 50

\* debt_ratio = (amount / duration_months) / monthly_income * 100, compared
\* with 30, 50 and 70.
debt_ratio(f, ln) ==
    IF ln.status # "NONE" /\ f.monthly_income # 0
      THEN LET num == 100 * ln.amount
               den == ln.duration * f.monthly_income
           IN  IF num <= 30 * den THEN 100
               ELSE IF num <= 50 * den THEN 70
               ELSE IF num <= 70 * den THEN 50
               ELSE 30
      ELSE 60

\* credit_score = min(1000, max(0, int(sum(factor * weight * 10)))) with
\* weights 0.3, 0.25, 0.2, 0.25.
credit_score_of(f, ln) ==
    LET raw == (30 * f.kyc + 25 * income_stability(f) + 20 * loan_history(f)
                + 25 * debt_ratio(f, ln)) \div 10
    IN  IF raw > 1000 THEN 1000 ELSE IF raw < 0 THEN 0 ELSE raw

risk_level_of(score) ==
    IF score >= 800 THEN "VERY_LOW"
    ELSE IF score >= 650 THEN "LOW"
    ELSE IF score >= 500 THEN "MEDIUM"
    ELSE IF score >= 350 THEN "HIGH"
    ELSE "VERY_HIGH"

assess_risk(f, ln) ==
    [credit_score |-> credit_score_of(f, ln),
     risk_level |-> risk_level_of(credit_score_of(f, ln))]

\* lending/views.py create_loan_request: the loan row is created PENDING and
\* BorrowerProfilerAgent.process(user, loan) sets it APPROVED when the
\* profiler run succeeds (it raises, leaving PENDING, when KYC documents are
\* missing or the OCR/risk step fails).  A successful run needs a VERIFIED
\* KYC status and writes the borrower's BorrowerRiskProfile row and its
\* AgentLog row.  The handler then calls loan_matching.notify_matching_lenders
\* for an APPROVED loan: those writes are the steps of the matching run
\* "svc" below.
create_loan_request ==
    /\ loan.status = "NONE"
    /\ \E a \in LoanAmounts, r \in InterestRates, d \in Durations,
          profiled \in BOOLEAN :
          LET created == [status |-> IF profiled THEN "APPROVED" ELSE "PENDING",
                          amount |-> a, rate |-> r, duration |-> d]
              assessed == assess_risk(facts, created)
          IN  /\ a >= 1000000
              /\ profiled => facts.kyc = 100
              /\ loan' = created
              /\ IF profiled
                    THEN /\ risk_profile' = [exists |-> TRUE,
                                   credit_score |-> assessed.credit_score,
                                   risk_level |-> assessed.risk_level]
                         /\ runs' = Append(runs, assessed)
                    ELSE UNCHANGED <<risk_profile, runs>>
    /\ UNCHANGED <<today, balance, contract, sched, legacy, txns, signer, last>>
    /\ UNCHANGED <<investor, dvars, nvars, mvars, facts, scorer, tvars, paying>>

\* ai_agents/views.py approve_loan (staff): sets APPROVED whatever the
\* current status is.
approve_loan ==
    /\ loan.status # "NONE"
    /\ loan' = [loan EXCEPT !.status = "APPROVED"]
    /\ UNCHANGED <<today, balance, contract, sched, legacy, txns, signer, last>>
    /\ UNCHANGED <<investor, aux>>

(* lending/views.py invest_in_loan runs without a transaction.  Request t   *)
(* loads the APPROVED loan and its own profile, saves the debited profile,  *)
(* loads, credits and saves the borrower's profile, and then calls          *)
(* ContractGeneratorAgent.process -> create_contract_record.  Every save()  *)
(* writes the request's in-memory copy of the row.  investor[t] is the      *)
(* request in flight: its position and its in-memory balances.              *)
\* get_object_or_404(LoanRequest, status="APPROVED"); profile loaded; the
\* self-investment and balance checks.
invest_in_loan_begin(t) ==
    /\ investor[t].pc = "idle"
    /\ loan.status = "APPROVED"
    /\ balance[Borrower] <= MaxBorrowerBalance
    /\ \E lender \in Lenders :
          /\ lender # Borrower
          /\ balance[lender] >= loan.amount
          /\ investor' = [investor EXCEPT ![t] =
                            [pc |-> "debit", lender |-> lender,
                             profile_balance |-> balance[lender],
                             borrower_balance |-> 0]]
    /\ UNCHANGED <<today, balance, loan, contract, sched, legacy, txns,
                   signer, last>>
    /\ UNCHANGED aux

\* profile.balance -= loan.amount; profile.save()
invest_in_loan_debit(t) ==
    /\ investor[t].pc = "debit"
    /\ LET b == investor[t].profile_balance - loan.amount
       IN  /\ balance' = [balance EXCEPT ![investor[t].lender] = b]
           /\ investor' = [investor EXCEPT ![t].pc = "credit",
                                           ![t].profile_balance = b]
    /\ UNCHANGED <<today, loan, contract, sched, legacy, txns, signer, last>>
    /\ UNCHANGED aux

\* borrower_profile = loan.borrower.profile; += loan.amount; save()
invest_in_loan_credit(t) ==
    /\ investor[t].pc = "credit"
    /\ LET b == balance[Borrower] + loan.amount
       IN  /\ balance' = [balance EXCEPT ![Borrower] = b]
           /\ investor' = [investor EXCEPT ![t].pc = "contract",
                                           ![t].borrower_balance = b]
    /\ UNCHANGED <<today, loan, contract, sched, legacy, txns, signer, last>>
    /\ UNCHANGED aux

\* agent.process(loan, user): validate_contract_parties reports an error
\* when the borrower's kyc_status is not VERIFIED, and the
\* LoanContract.loan_request OneToOneField makes the insert fail when the
\* loan already has a contract; the view then saves both in-memory profiles
\* with the amount moved back.
invest_in_loan_contract(t) ==
    /\ investor[t].pc = "contract"
    /\ IF facts.kyc # 100 \/ contract.exists
       THEN /\ balance' = [balance EXCEPT
                  ![investor[t].lender] = investor[t].profile_balance + loan.amount,
                  ![Borrower] = investor[t].borrower_balance - loan.amount]
            /\ last' = Call("invest_in_loan", "contract_failed")
            /\ UNCHANGED <<loan, contract>>
       ELSE /\ contract' = [exists |-> TRUE, kind |-> "NEW",
                            lender |-> investor[t].lender,
                            principal |-> loan.amount, rate |-> loan.rate,
                            months |-> loan.duration, start_date |-> today,
                            borrower_signed |-> FALSE, lender_signed |-> FALSE,
                            status |-> "PENDING_SIGNATURES", is_active |-> TRUE]
            /\ loan' = [loan EXCEPT !.status = "CONTRACT_CREATED"]
            /\ last' = Call("invest_in_loan", "ok")
            /\ UNCHANGED balance
    /\ investor' = [investor EXCEPT ![t] = NoInvest]
    /\ UNCHANGED <<today, sched, legacy, txns, signer>>
    /\ UNCHANGED aux

(* ContractGeneratorAgent.sign_contract is not wrapped in a transaction:    *)
(* it reads the contract row, sets the caller's flag on its in-memory copy, *)
(* and when the copy has both flags it saves the loan request as FUNDED,    *)
(* inserts the PaymentSchedule rows one by one, and only then saves the     *)
(* contract row.  signer[p] is the call in flight for signature_type p.     *)
\* Variant of sign_contract_begin that activates the contract as soon as
\* either party has signed (`or` in place of `and`).
sign_contract_begin_either(p) ==
    /\ signer[p].pc = "idle"
    /\ contract.exists
    /\ LET c0 == IF p = "borrower"
                 THEN [contract EXCEPT !.borrower_signed = TRUE]
                 ELSE [contract EXCEPT !.lender_signed = TRUE]
           both == c0.borrower_signed \/ c0.lender_signed
           c1 == IF both
                 THEN [c0 EXCEPT !.status = "ACTIVE", !.is_active = TRUE]
                 ELSE c0
       IN  signer' = [signer EXCEPT ![p] =
                        [pc |-> IF both THEN "fund" ELSE "save",
                         copy |-> c1, next |-> 1]]
    /\ UNCHANGED <<today, balance, loan, contract, sched, legacy, txns, last>>
    /\ UNCHANGED <<investor, aux>>

\* contract = LoanContract.objects.get(id); flag set on the in-memory copy.
sign_contract_begin(p) ==
    /\ signer[p].pc = "idle"
    /\ contract.exists
    /\ LET c0 == IF p = "borrower"
                 THEN [contract EXCEPT !.borrower_signed = TRUE]
                 ELSE [contract EXCEPT !.lender_signed = TRUE]
           both == c0.borrower_signed /\ c0.lender_signed
           c1 == IF both
                 THEN [c0 EXCEPT !.status = "ACTIVE", !.is_active = TRUE]
                 ELSE c0
       IN  signer' = [signer EXCEPT ![p] =
                        [pc |-> IF both THEN "fund" ELSE "save",
                         copy |-> c1, next |-> 1]]
    /\ UNCHANGED <<today, balance, loan, contract, sched, legacy, txns, last>>
    /\ UNCHANGED <<investor, aux>>

\* contract.loan_request.status = "FUNDED"; contract.loan_request.save()
sign_contract_fund(p) ==
    /\ signer[p].pc = "fund"
    /\ loan' = [loan EXCEPT !.status = "FUNDED"]
    /\ signer' = [signer EXCEPT ![p].pc = "rows"]
    /\ UNCHANGED <<today, balance, contract, sched, legacy, txns, last>>
    /\ UNCHANGED <<investor, aux>>

\* _create_payment_schedule: one PaymentSchedule.objects.create per item.
\* A duplicate (contract, installment_number) violates unique_together and
\* a legacy contract has no start/end date: both raise, sign_contract's
\* except returns the error and contract.save() is never reached.
sign_contract_row(p) ==
    /\ signer[p].pc = "rows"
    /\ LET k == signer[p].next
           c == signer[p].copy
       IN  IF c.kind # "NEW" \/ (k <= c.months /\ RowExists(k))
           THEN /\ signer' = [signer EXCEPT ![p] = Idle]
                /\ last' = Call("sign_contract", "error")
                /\ UNCHANGED sched
           ELSE IF k <= c.months
           THEN /\ sched' = [sched EXCEPT ![k] = [NoRow EXCEPT !.status = "PENDING"]]
                /\ signer' = [signer EXCEPT ![p].next = k + 1]
                /\ UNCHANGED last
           ELSE /\ signer' = [signer EXCEPT ![p].pc = "save"]
                /\ UNCHANGED <<sched, last>>
    /\ UNCHANGED <<today, balance, loan, contract, legacy, txns>>
    /\ UNCHANGED <<investor, aux>>

\* contract.save(): every column is written from the in-memory copy.
sign_contract_save(p) ==
    /\ signer[p].pc = "save"
    /\ contract' = signer[p].copy
    /\ signer' = [signer EXCEPT ![p] = Idle]
    /\ last' = Call("sign_contract", "ok")
    /\ UNCHANGED <<today, balance, loan, sched, legacy, txns>>
    /\ UNCHANGED <<investor, aux>>

(* process_payment tool: one transaction.atomic() block that locks the      *)
(* PaymentSchedule row with select_for_update, so the call is one step.     *)
(* An exception inside the block rolls every write back.                    *)
process_payment(k, user, amount, method) ==
    /\ RowExists(k)
    /\ user = Borrower
    /\ LET late_days == LateDays(k, today)
           late_fee == LateFee(k, today)
           total_due == TotalDue(k, today)
           paid == [status |-> "PAID", paid_amount |-> total_due,
                    paid_date |-> today, late_fee |-> late_fee,
                    late_days |-> late_days]
           sched1 == [sched EXCEPT ![k] = paid]
           pending_count ==
               Cardinality({j \in Installments : sched1[j].status = "PENDING"})
           wallet_ok == method = "WALLET" => balance[Borrower] >= total_due
           fail(r) == /\ last' = Call("process_payment", r)
                      /\ UNCHANGED <<balance, loan, contract, sched, txns>>
       IN  IF amount < total_due THEN fail("insufficient_payment")
           ELSE IF method = "WALLET" /\ ~HasWalletBalanceField THEN fail("error")
           ELSE IF ~wallet_ok THEN fail("insufficient_funds")
           ELSE /\ Len(txns) < MaxTxns
                /\ balance' =
                     IF method = "WALLET"
                     THEN [balance EXCEPT
                             ![Borrower] = @ - total_due,
                             ![contract.lender] = @ + total_amount(k)]
                     ELSE balance
                /\ txns' = Append(txns,
                     Txn("INSTALLMENT", k, user, contract.lender, total_due,
                         late_fee, late_days, method))
                /\ sched' = sched1
                /\ IF pending_count = 0
                   THEN /\ contract' = [contract EXCEPT !.status = "COMPLETED",
                                                        !.is_active = FALSE]
                        /\ loan' = [loan EXCEPT !.status = "COMPLETED"]
                   ELSE UNCHANGED <<contract, loan>>
                /\ last' = Call("process_payment", "ok")
    /\ UNCHANGED <<today, legacy, signer>>
    /\ UNCHANGED <<investor, aux>>

\* Amounts a caller may offer for installment k today.
PayAmounts(k) ==
    IF RowExists(k)
    THEN {total_amount(k), TotalDue(k, today), TotalDue(k, today) - 1}
    ELSE {0}

\* A process_payment call with any of the amounts a caller may offer.
process_payment_request(k, user, method) ==
    \E amount \in PayAmounts(k) : process_payment(k, user, amount, method)

(* PaymentMonitorAgent.early_payoff: quote outside the transaction, then    *)
(* one atomic block.  Reading wallet_balance raises before any write.       *)
early_payoff(user) ==
    /\ contract.exists
    /\ user = Borrower
    /\ LET quote == calculate_early_payoff(today)
           payoff_amount == quote.total_payoff_amount
           fail(r) == /\ last' = Call("early_payoff", r)
                      /\ UNCHANGED <<balance, loan, contract, sched, txns>>
       IN  IF ~HasWalletBalanceField THEN fail("error")
           ELSE IF balance[Borrower] < payoff_amount THEN fail("insufficient_funds")
           ELSE /\ Len(txns) < MaxTxns
                /\ balance' = [balance EXCEPT
                                 ![Borrower] = @ - payoff_amount,
                                 ![contract.lender] = @ + payoff_amount]
                /\ sched' = [k \in Installments |->
                               IF sched[k].status = "PENDING"
                               THEN [sched[k] EXCEPT !.status = "PAID",
                                                     !.paid_date = today]
                               ELSE sched[k]]
                /\ txns' = Append(txns,
                     Txn("EARLY_PAYOFF", 0, user, contract.lender,
                         payoff_amount, 0, 0, "WALLET"))
                /\ contract' = [contract EXCEPT !.status = "COMPLETED",
                                                !.is_active = FALSE]
                /\ loan' = [loan EXCEPT !.status = "COMPLETED"]
                /\ last' = Call("early_payoff", "ok")
    /\ UNCHANGED <<today, legacy, signer>>
    /\ UNCHANGED <<investor, aux>>

(* Legacy ContractGeneratorAgent.process (contract_generator.py): creates   *)
(* the contract with the model defaults, one RepaymentSchedule row per      *)
(* schedule item, and sets the loan FUNDED.  When the LLM call fails or the *)
(* loan already has a contract (OneToOne) the call raises before any row is *)
(* written.                                                                 *)
legacy_contract_process(lender) ==
    /\ loan.status # "NONE"
    /\ lender # Borrower
    /\ ~contract.exists
    /\ \E n \in Installments, a \in LegacyTotals :
          legacy' = [k \in Installments |->
                       IF k <= n THEN [state |-> "UNPAID", amount_due |-> a]
                       ELSE NoLegacy]
    /\ contract' = [NoContract EXCEPT
                      !.exists = TRUE, !.kind = "LEGACY",
                      !.lender = lender,
                      !.status = "PENDING_SIGNATURES",
                      !.is_active = TRUE]
    /\ loan' = [loan EXCEPT !.status = "FUNDED"]
    /\ UNCHANGED <<today, balance, sched, txns, signer, last>>
    /\ UNCHANGED <<investor, aux>>

(* Legacy PaymentMonitorAgent.mark_payment_completed (payment_monitor.py).  *)
mark_payment_completed(k) ==
    /\ legacy[k].state # "NONE"
    /\ legacy' = [legacy EXCEPT ![k].state = "PAID"]
    /\ contract' =
         IF {j \in Installments : legacy'[j].state = "UNPAID"} = {}
         THEN [contract EXCEPT !.is_active = FALSE]
         ELSE contract
    /\ UNCHANGED <<today, balance, loan, sched, txns, signer, last>>
    /\ UNCHANGED <<investor, aux>>

(* lending/views.py make_payment, the definition bound to the URL (the      *)
(* second def of that name, on RepaymentSchedule): no transaction; both     *)
(* balances are saved and then agent.mark_payment_completed is called on    *)
(* the exported PaymentMonitorAgent.                                        *)
make_payment(k, user) ==
    /\ legacy[k].state = "UNPAID"
    /\ user = Borrower
    /\ balance[Borrower] >= legacy[k].amount_due
    /\ LET amount_due == legacy[k].amount_due
       IN  balance' = [balance EXCEPT ![Borrower] = @ - amount_due,
                                      ![contract.lender] = @ + amount_due]
    /\ IF AgentHasMarkPaymentCompleted
       THEN /\ legacy' = [legacy EXCEPT ![k].state = "PAID"]
            /\ contract' =
                 IF {j \in Installments : legacy'[j].state = "UNPAID"} = {}
                 THEN [contract EXCEPT !.is_active = FALSE]
                 ELSE contract
            /\ last' = Call("make_payment", "ok")
       ELSE /\ last' = Call("make_payment", "crash")
            /\ UNCHANGED <<legacy, contract>>
    /\ UNCHANGED <<today, loan, sched, txns, signer>>
    /\ UNCHANGED <<investor, aux>>

(* The same make_payment view statement by statement, for requests that    *)
(* overlap: paying[t] is the request in flight with its in-memory profile.   *)
\* Variant of make_payment_begin without the balance check.
make_payment_begin_unchecked(t, k, user) ==
    /\ paying[t].pc = "idle"
    /\ legacy[k].state = "UNPAID"
    /\ user = Borrower
    /\ paying' = [paying EXCEPT ![t] =
                    [pc |-> "debit", schedule |-> k,
                     profile_balance |-> balance[Borrower]]]
    /\ UNCHANGED last
    /\ UNCHANGED <<lending, dvars, nvars, mvars, rvars, tvars>>

\* schedule and profile loaded; the borrower, is_paid and balance checks.
make_payment_begin(t, k, user) ==
    /\ paying[t].pc = "idle"
    /\ legacy[k].state = "UNPAID"
    /\ user = Borrower
    /\ IF balance[Borrower] < legacy[k].amount_due
       THEN /\ last' = Call("make_payment", "insufficient_funds")
            /\ UNCHANGED paying
       ELSE /\ paying' = [paying EXCEPT ![t] =
                           [pc |-> "debit", schedule |-> k,
                            profile_balance |-> balance[Borrower]]]
            /\ UNCHANGED last
    /\ UNCHANGED <<lending, dvars, nvars, mvars, rvars, tvars>>

\* profile.balance -= schedule.amount_due; profile.save()
make_payment_debit(t) ==
    /\ paying[t].pc = "debit"
    /\ balance' = [balance EXCEPT ![Borrower] =
                      paying[t].profile_balance
                        - legacy[paying[t].schedule].amount_due]
    /\ paying' = [paying EXCEPT ![t].pc = "credit"]
    /\ UNCHANGED <<today, loan, contract, sched, legacy, txns, signer,
                   investor, last>>
    /\ UNCHANGED <<dvars, nvars, mvars, rvars, tvars>>

\* lender_profile loaded, credited and saved; then
\* agent.mark_payment_completed(schedule_id) on the exported agent.
make_payment_credit(t) ==
    /\ paying[t].pc = "credit"
    /\ LET k == paying[t].schedule
       IN  /\ balance' = [balance EXCEPT ![contract.lender] =
                             @ + legacy[k].amount_due]
           /\ IF AgentHasMarkPaymentCompleted
              THEN /\ legacy' = [legacy EXCEPT ![k].state = "PAID"]
                   /\ contract' =
                        IF {j \in Installments : legacy'[j].state = "UNPAID"}
                             = {}
                        THEN [contract EXCEPT !.is_active = FALSE]
                        ELSE contract
                   /\ last' = Call("make_payment", "ok")
              ELSE /\ last' = Call("make_payment", "crash")
                   /\ UNCHANGED <<legacy, contract>>
    /\ paying' = [paying EXCEPT ![t] = NoPay]
    /\ UNCHANGED <<today, loan, sched, txns, signer, investor>>
    /\ UNCHANGED <<dvars, nvars, mvars, rvars, tvars>>

(* user/views.py deposit and withdraw.  UserProfile.balance is a Decimal    *)
(* and the views add / subtract float(request.POST["amount"]): Decimal and  *)
(* float do not mix, the TypeError is caught by the view's except branch    *)
(* and the response is success False.                                       *)
DecimalAcceptsFloat == FALSE

\* deposit: amount <= 0 is refused; profile.balance += amount; save().
deposit(user, amount) ==
    /\ IF amount <= 0 THEN /\ last' = Call("deposit", "invalid_amount")
                            /\ UNCHANGED balance
       ELSE IF ~DecimalAcceptsFloat
       THEN /\ last' = Call("deposit", "error")
            /\ UNCHANGED balance
       ELSE /\ balance' = [balance EXCEPT ![user] = @ + amount]
            /\ last' = Call("deposit", "ok")
    /\ UNCHANGED <<today, loan, contract, sched, legacy, txns, signer,
                   investor, aux>>

\* withdraw: amount <= 0 and amount > balance are refused;
\* profile.balance -= amount; save().
withdraw(user, amount) ==
    /\ IF amount <= 0 THEN /\ last' = Call("withdraw", "invalid_amount")
                            /\ UNCHANGED balance
       ELSE IF amount > balance[user]
       THEN /\ last' = Call("withdraw", "insufficient_funds")
            /\ UNCHANGED balance
       ELSE IF ~DecimalAcceptsFloat
       THEN /\ last' = Call("withdraw", "error")
            /\ UNCHANGED balance
       ELSE /\ balance' = [balance EXCEPT ![user] = @ - amount]
            /\ last' = Call("withdraw", "ok")
    /\ UNCHANGED <<today, loan, contract, sched, legacy, txns, signer,
                   investor, aux>>

(* ------------------------------ disputes ------------------------------ *)
\* dispute_resolver_new.py create_dispute (behind file_dispute): a party of
\* an existing contract opens a dispute.
create_dispute ==
    /\ contract.exists
    /\ dispute.status = "NONE"
    /\ dispute' = [NoDispute EXCEPT !.status = "OPEN"]
    /\ UNCHANGED <<lending, others_d, last, evidence>>

\* dispute_resolver_new.py add_dispute_evidence: refused once the dispute
\* is RESOLVED or CLOSED.
add_dispute_evidence ==
    /\ dispute.status # "NONE"
    /\ IF dispute.status \in {"RESOLVED", "CLOSED"}
       THEN /\ last' = Call("add_dispute_evidence", "error")
            /\ UNCHANGED evidence
       ELSE /\ evidence < MaxEvidence
            /\ evidence' = evidence + 1
            /\ last' = Call("add_dispute_evidence", "ok")
    /\ UNCHANGED <<lending, others_d, dispute>>

\* dispute_resolver_new.py resolve_dispute, in one transaction on the locked
\* row: refused for a RESOLVED or CLOSED dispute; a refund in favour of the
\* complainant reads UserProfile.wallet_balance.
resolve_dispute(resolution_type, resolution_note, refund_amount) ==
    /\ dispute.status # "NONE"
    /\ IF dispute.status \in {"RESOLVED", "CLOSED"}
       THEN /\ last' = Call("resolve_dispute", "already_resolved")
            /\ UNCHANGED dispute
       ELSE IF /\ refund_amount > 0
               /\ resolution_type = "FAVOR_COMPLAINANT"
               /\ ~HasWalletBalanceField
       THEN /\ last' = Call("resolve_dispute", "error")
            /\ UNCHANGED dispute
       ELSE /\ dispute' = [dispute EXCEPT !.status = "RESOLVED",
                                          !.resolution = resolution_note,
                                          !.resolution_type = resolution_type,
                                          !.refund_amount = refund_amount]
            /\ last' = Call("resolve_dispute", "ok")
    /\ UNCHANGED <<lending, others_d, evidence>>

\* dispute_resolver.py DisputeResolverAgent.process -> _update_dispute: the
\* analysed dispute is saved as ESCALATED or IN_REVIEW.
legacy_update_dispute(escalation_needed) ==
    /\ dispute.status # "NONE"
    /\ dispute' = [dispute EXCEPT !.status = IF escalation_needed
                                             THEN "ESCALATED"
                                             ELSE "IN_REVIEW"]
    /\ last' = Call("legacy_update_dispute", "ok")
    /\ UNCHANGED <<lending, others_d, evidence>>

\* dispute_resolver.py DisputeResolverAgent.resolve_dispute(dispute, notes).
legacy_resolve_dispute(resolution_notes) ==
    /\ dispute.status # "NONE"
    /\ dispute' = [dispute EXCEPT !.status = "RESOLVED",
                                  !.resolution_notes = resolution_notes]
    /\ last' = Call("legacy_resolve_dispute", "ok")
    /\ UNCHANGED <<lending, others_d, evidence>>

(* --------------------------- daily monitor ---------------------------- *)
\* The installments get_overdue_payments(0) returns on day d.
OverdueRows(d) ==
    {k \in Installments : /\ sched[k].status = "PENDING"
                          /\ due_date(k) < d
                          /\ contract.is_active}

\* ai_agents/views.py run_payment_check -> PaymentMonitorAgent.process() ->
\* _monitor_all_payments: send_payment_reminder creates a Notification for
\* every overdue installment; late fees are computed for the report and
\* not stored.  monitor_day is the day of the run's AgentLog row.
run_payment_check ==
    /\ \A k \in OverdueRows(today) : notifications[k] < MaxReminders
    /\ notifications' = [k \in Installments |->
                            IF k \in OverdueRows(today)
                            THEN notifications[k] + 1
                            ELSE notifications[k]]
    /\ monitor_day' = today
    /\ UNCHANGED <<lending, others_n, last>>

(* ------------------------------ matching ------------------------------ *)
\* LenderProfile rows.  "fit" is the row the model defaults give; the other
\* kinds differ from it in the fields shown.
LenderProfile(kind) ==
    LET fit == [min_amount |-> 1000000, max_amount |-> 100000000,
                min_interest_rate |-> 8, preferred_duration_min |-> 1,
                preferred_duration_max |-> 24, risk_tolerance |-> "MEDIUM"]
    IN  CASE kind = "small" -> [fit EXCEPT !.max_amount = 1600000,
                                           !.risk_tolerance = "HIGH"]
          [] kind = "picky" -> [fit EXCEPT !.min_interest_rate = 16,
                                           !.risk_tolerance = "LOW"]
          [] kind = "edge" -> [fit EXCEPT !.min_interest_rate = 15,
                                          !.preferred_duration_min = 15,
                                          !.risk_tolerance = "LOW"]
          [] kind = "far" -> [fit EXCEPT !.min_interest_rate = 16,
                                         !.preferred_duration_min = 15,
                                         !.risk_tolerance = "LOW"]
          [] OTHER -> fit

\* lending/views.py lender_profile_view (POST): get_or_create the caller's
\* LenderProfile and save the posted preferences, is_active on.
set_lender_profile(u, kind) ==
    /\ kind \in PoolChoices[u]
    /\ pool[u] # kind
    /\ pool' = [pool EXCEPT ![u] = kind]
    /\ UNCHANGED <<lending, last, others_m, rows, matcher>>

AmountInRange(lp) ==
    lp.min_amount <= loan.amount /\ loan.amount <= lp.max_amount

DurationInRange(lp) ==
    /\ lp.preferred_duration_min <= loan.duration
    /\ loan.duration <= lp.preferred_duration_max

Max0(x) == IF x > 0 THEN x ELSE 0

\* A run that keeps only the scores above 50 points.
AboveMinimum(score) == score > 500

\* The test both matchers apply to a computed score (in tenths) before they
\* keep the pair: match_score >= 50.
MeetsMinimum(score) == score >= 500

\* Number of matches LenderMatcherAgent.process saves (matches[:10]).
SaveLimit == 10

\* Order in which an unordered LenderProfile queryset returns the rows
\* (primary key order); list.sort is stable, so equal scores keep it.
QueryOrder == [u \in PoolUsers |->
                 CASE u = Borrower -> 1 [] u = "l1" -> 2 [] OTHER -> 3]

\* matches.sort(key=match_score, reverse=True) over the lenders in S.
RECURSIVE Ranked(_, _)
Ranked(S, score) ==
    IF S = {} THEN <<>>
    ELSE LET best == CHOOSE u \in S : \A v \in S :
                        \/ score[u] > score[v]
                        \/ score[u] = score[v] /\ QueryOrder[u] <= QueryOrder[v]
         IN  <<[lender |-> best, match_score |-> score[best]]>>
             \o Ranked(S \ {best}, score)

\* LoanMatchingService._calculate_match_score, in tenths of a point.
calculate_match_score(u) ==
    LET lp == LenderProfile(pool[u])
        amount == IF AmountInRange(lp) THEN 300
                  ELSE IF loan.amount < lp.min_amount
                    THEN (150 * loan.amount) \div lp.min_amount
                    ELSE (150 * lp.max_amount) \div loan.amount
        duration == IF DurationInRange(lp) THEN 250
                    ELSE IF loan.duration < lp.preferred_duration_min
                      THEN Max0(250 - (lp.preferred_duration_min
                                       - loan.duration) * 20)
                      ELSE Max0(250 - (loan.duration
                                       - lp.preferred_duration_max) * 20)
        interest_rate == IF loan.rate >= lp.min_interest_rate THEN 250
                         ELSE Max0(250 - (lp.min_interest_rate - loan.rate) * 50)
        risk == IF risk_profile.exists
                  THEN IF lp.risk_tolerance = "HIGH" THEN 200
                       ELSE IF /\ lp.risk_tolerance = "MEDIUM"
                               /\ risk_profile.risk_level \in {"LOW", "MEDIUM"}
                         THEN 200
                       ELSE IF /\ lp.risk_tolerance = "LOW"
                               /\ risk_profile.risk_level = "LOW"
                         THEN 200
                       ELSE 100
                  ELSE 140
        score == amount + duration + interest_rate + risk
    IN  IF score > 1000 THEN 1000 ELSE score

\* LoanMatchingService.find_matching_lenders: every active profile except
\* the borrower's own is scored; the ones reaching the minimum are ranked.
find_matching_lenders ==
    LET candidates == {u \in PoolUsers : pool[u] # "none" /\ u # Borrower}
        score == [u \in PoolUsers |->
                    IF u \in candidates THEN calculate_match_score(u) ELSE 0]
    IN  Ranked({u \in candidates : MeetsMinimum(score[u])}, score)

\* LoanMatchingService.find_matching_loans for lender u: the APPROVED loans
\* of other users without a contract whose score reaches the minimum (the
\* model has one loan, so the result is whether that loan is listed).
find_matching_loans(u) ==
    /\ pool[u] # "none"
    /\ loan.status = "APPROVED"
    /\ u # Borrower
    /\ ~contract.exists
    /\ MeetsMinimum(calculate_match_score(u))

\* LenderMatcherAgent._find_potential_lenders.
find_potential_lenders ==
    {u \in PoolUsers : /\ pool[u] # "none"
                        /\ AmountInRange(LenderProfile(pool[u]))
                        /\ DurationInRange(LenderProfile(pool[u]))
                        /\ u # Borrower}

\* LenderMatcherAgent._calculate_match: round(match_score, 1), in tenths.
calculate_match(u) ==
    LET lp == LenderProfile(pool[u])
        interest_rate_fit ==
            IF loan.rate < lp.min_interest_rate
              THEN Max0(100 - (lp.min_interest_rate - loan.rate) * 10)
              ELSE 100
        risk_fit ==
            IF ~risk_profile.exists THEN 70
            ELSE IF lp.risk_tolerance = "LOW"
              THEN IF risk_profile.risk_level \in {"HIGH", "VERY_HIGH"} THEN 30
                   ELSE IF risk_profile.risk_level = "MEDIUM" THEN 60
                   ELSE 100
            ELSE IF lp.risk_tolerance = "MEDIUM"
              THEN IF risk_profile.risk_level = "VERY_HIGH" THEN 40 ELSE 85
            ELSE 100
    IN  RoundHalfEven(25 * 100 + 30 * interest_rate_fit + 20 * 100
                      + 25 * risk_fit, 10)

\* The list LenderMatcherAgent.process hands to _save_matches.
lender_matcher_matches ==
    LET score == [u \in PoolUsers |->
                    IF u \in find_potential_lenders
                      THEN calculate_match(u) ELSE 0]
        ranked == Ranked({u \in find_potential_lenders :
                            MeetsMinimum(score[u])}, score)
    IN  SubSeq(ranked, 1, IF Len(ranked) < SaveLimit
                            THEN Len(ranked) ELSE SaveLimit)

\* ai_agents/views.py run_lender_matcher -> LenderMatcherAgent.process for
\* the borrower's loan: the run computes its list and then saves it, one
\* statement at a time, without a transaction.
lender_matcher_begin(t) ==
    /\ t \in AgentThreads
    /\ matcher[t].pc = "idle"
    /\ loan.status # "NONE"
    /\ matcher' = [matcher EXCEPT ![t] =
                     [pc |-> "delete", kind |-> "agent",
                      matches |-> lender_matcher_matches, next |-> 1,
                      result |-> "none"]]
    /\ UNCHANGED <<lending, last, others_m, pool, rows>>

\* loan_matching.notify_matching_lenders(loan), called by
\* create_loan_request once its loan is APPROVED.
notify_matching_lenders_begin ==
    /\ matcher["svc"].pc = "idle"
    /\ loan.status = "APPROVED"
    /\ matcher' = [matcher EXCEPT !["svc"] =
                     [pc |-> "delete", kind |-> "service",
                      matches |-> find_matching_lenders, next |-> 1,
                      result |-> "none"]]
    /\ UNCHANGED <<lending, last, others_m, pool, rows>>

\* A save that inserts the new rows without deleting the old ones.
save_matches_keep(t) ==
    /\ matcher[t].pc = "delete"
    /\ matcher' = [matcher EXCEPT ![t] =
                     IF Len(@.matches) = 0
                       THEN [@ EXCEPT !.pc = "done", !.result = "ok"]
                       ELSE [@ EXCEPT !.pc = "insert"]]
    /\ UNCHANGED <<lending, last, others_m, pool, rows>>

\* _save_matches / save_match_results, first statement:
\* LenderMatchResult.objects.filter(loan_request=loan).delete().
save_matches_delete(t) ==
    /\ matcher[t].pc = "delete"
    /\ rows' = [u \in PoolUsers |-> NoMatch]
    /\ matcher' = [matcher EXCEPT ![t] =
                     IF Len(@.matches) = 0
                       THEN [@ EXCEPT !.pc = "done", !.result = "ok"]
                       ELSE [@ EXCEPT !.pc = "insert"]]
    /\ UNCHANGED <<lending, last, others_m, pool>>

\* One LenderMatchResult.objects.create of the loop.  unique_together
\* (loan_request, lender) makes the insert raise IntegrityError when the
\* row exists, which ends the run.
save_matches_create(t) ==
    /\ matcher[t].pc = "insert"
    /\ LET m == matcher[t].matches[matcher[t].next]
       IN  IF rows[m.lender] # NoMatch
             THEN /\ matcher' = [matcher EXCEPT ![t].pc = "done",
                                                ![t].result = "error"]
                  /\ UNCHANGED rows
             ELSE /\ rows' = [rows EXCEPT ![m.lender] = m.match_score]
                  /\ matcher' = [matcher EXCEPT ![t] =
                        IF @.next = Len(@.matches)
                          THEN [@ EXCEPT !.pc = "done", !.result = "ok"]
                          ELSE [@ EXCEPT !.next = @ + 1]]
    /\ UNCHANGED <<lending, last, others_m, pool>>

\* No matching run is between its first and its last statement.
NoRunInFlight == \A t \in MatchThreads : matcher[t].pc \in {"idle", "done"}

(* -------------------------- profiler runs ----------------------------- *)
\* user/views.py kyc_view (POST): saves the profile form, monthly_income
\* included.
kyc_view(income) ==
    /\ facts.monthly_income # income
    /\ facts' = [facts EXCEPT !.monthly_income = income]
    /\ UNCHANGED <<lending, last, others_r, risk_profile, scorer, runs>>

\* save_kyc_verification_result: stores the verifier's match score and sets
\* kyc_status (VERIFIED gives the factor 100, otherwise the stored score).
save_kyc_verification_result(k) ==
    /\ facts.kyc # k
    /\ facts' = [facts EXCEPT !.kyc = k]
    /\ UNCHANGED <<lending, last, others_r, risk_profile, scorer, runs>>

\* ai_agents/views.py run_borrower_profiler -> BorrowerProfilerAgent.process
\* (user) without a loan request.  _log_start inserts the run's AgentLog row,
\* _assess_risk get_or_creates the BorrowerRiskProfile row (defaults 500 /
\* MEDIUM) and computes the values from the facts it read; the row is saved
\* by a later statement, with no lock and no transaction.
run_borrower_profiler_begin(t) ==
    /\ scorer[t].pc = "idle"
    /\ LET assessed == assess_risk(facts, NoLoan)
       IN  /\ runs' = Append(runs, assessed)
           /\ scorer' = [scorer EXCEPT ![t] =
                 [pc |-> "save", credit_score |-> assessed.credit_score,
                  risk_level |-> assessed.risk_level, log |-> Len(runs) + 1]]
    /\ risk_profile' = IF risk_profile.exists THEN risk_profile
                       ELSE [exists |-> TRUE, credit_score |-> 500,
                             risk_level |-> "MEDIUM"]
    /\ UNCHANGED <<lending, last, others_r, facts>>

\* Legacy BorrowerProfilerAgent.process (borrower_profiler.py): the values
\* are the "credit_score" and "risk_level" entries of the LLM's JSON answer;
\* _update_risk_profile get_or_creates the row and saves them as they are.
legacy_profiler_begin(t) ==
    /\ scorer[t].pc = "idle"
    /\ \E cs \in LlmScores, rl \in LlmRiskLevels :
          /\ runs' = Append(runs, [credit_score |-> cs, risk_level |-> rl])
          /\ scorer' = [scorer EXCEPT ![t] =
                [pc |-> "save", credit_score |-> cs, risk_level |-> rl,
                 log |-> Len(runs) + 1]]
    /\ risk_profile' = IF risk_profile.exists THEN risk_profile
                       ELSE [exists |-> TRUE, credit_score |-> 500,
                             risk_level |-> "MEDIUM"]
    /\ UNCHANGED <<lending, last, others_r, facts>>

\* BorrowerProfilerAgent.process for a user whose kyc_status is not VERIFIED
\* when the OCR / LLM collaborator fails.  Unavailable: ocr_id_card_front or
\* verify_id_card_info raises inside _perform_ocr_verification.  Unparseable:
\* save_kyc_verification_result returns without touching the profile, so
\* ocr_verified stays false and process raises ValueError.  Either way the
\* except branch returns success False before _assess_risk is reached.
run_borrower_profiler_fault(fault) ==
    /\ facts.kyc # 100
    /\ fault \in CollaboratorFaults
    /\ last' = Call("run_borrower_profiler", "error")
    /\ UNCHANGED <<lending, others_r, rvars>>

\* Legacy BorrowerProfilerAgent.process when the LLM chain raises or its
\* JsonOutputParser cannot parse the answer: _update_risk_profile is skipped
\* and the except branch returns success False.
legacy_profiler_fault(fault) ==
    /\ fault \in CollaboratorFaults
    /\ last' = Call("legacy_profiler", "error")
    /\ UNCHANGED <<lending, others_r, rvars>>

\* risk_profile.save() / profile.save(): writes the run's values.
risk_profile_save(t) ==
    /\ scorer[t].pc = "save"
    /\ risk_profile' = [exists |-> TRUE,
                        credit_score |-> scorer[t].credit_score,
                        risk_level |-> scorer[t].risk_level]
    /\ scorer' = [scorer EXCEPT ![t].pc = "done"]
    /\ UNCHANGED <<lending, last, others_r, facts, runs>>

(* --------------------------- tool functions --------------------------- *)
RECURSIVE Pow(_, _)
Pow(b, e) == IF e = 0 THEN 1 ELSE b * Pow(b, e - 1)

\* calculate_loan_schedule, EQUAL_PAYMENT branch: item `month`.  With the
\* monthly rate rn/rd and c = rd + rn, monthly_payment is
\* principal * rn * c^n / (rd * (c^n - rd^n)), the balance before the item is
\* principal * (c^n - rd^(n-month+1) * c^(month-1)) / (c^n - rd^n), interest
\* is that balance times the rate and principal_payment is the difference.
\* A zero rate gives principal / n and no interest.
equal_payment_item(principal, interest_rate, duration_months, month) ==
    LET g == GCD(interest_rate, MonthsPerYearPct)
        rn == interest_rate \div g
        rd == MonthsPerYearPct \div g
        n == duration_months
        cn == Pow(rd + rn, n)
        bn == Pow(rd, n)
    IN  IF rn = 0
          THEN [month |-> month,
                principal_payment |-> RoundHalfEven(principal, n),
                interest_payment |-> 0,
                total_payment |-> RoundHalfEven(principal, n)]
          ELSE [month |-> month,
                principal_payment |->
                    RoundHalfEven(principal * rn * Pow(rd, n - month)
                                    * Pow(rd + rn, month - 1), cn - bn),
                interest_payment |->
                    RoundHalfEven(principal * rn
                                    * (cn - Pow(rd, n - month + 1)
                                              * Pow(rd + rn, month - 1)),
                                  rd * (cn - bn)),
                total_payment |->
                    RoundHalfEven(principal * rn * cn, rd * (cn - bn))]

\* calculate_loan_schedule as a whole: the value the call returns, or the
\* exception it raises.  duration_months = 0 divides by zero in both
\* branches; a negative duration_months makes range(1, n + 1) empty.
calculate_loan_schedule_call(principal, interest_rate, duration_months, payment_method) ==
    IF duration_months = 0
      THEN [status |-> "ZeroDivisionError", schedule |-> <<>>]
      ELSE [status |-> "success",
            schedule |->
              [k \in 1..duration_months |->
                 IF payment_method = "EQUAL_PAYMENT"
                   THEN equal_payment_item(principal, interest_rate,
                                           duration_months, k)
                   ELSE calculate_loan_schedule(principal, interest_rate,
                                                duration_months, k)]]

\* One call of the calculate_loan_schedule tool with the drawn arguments.
invoke_calculate_loan_schedule ==
    /\ req.op = "calculate_loan_schedule"
    /\ resp = NoResp
    /\ resp' = calculate_loan_schedule_call(req.principal, req.interest_rate,
                                            req.duration_months,
                                            req.payment_method)
    /\ UNCHANGED <<lending, last, dvars, nvars, mvars, rvars, paying, req>>

\* analyze_dispute: late_count >= total_count * 0.5
HalfLate(late_count, total_count) == 2 * late_count >= total_count

\* analyze_dispute: late_count > total_count * 0.5
MostlyLate(late_count, total_count) == 2 * late_count > total_count

\* analyze_dispute: the severity of the analysis for a dispute of the
\* given type on a contract with the given PaymentSchedule counts.
severity_of(dispute_type, paid_count, total_count, late_count) ==
    IF dispute_type = "PAYMENT"
    THEN IF paid_count = 0 THEN "HIGH"
         ELSE IF MostlyLate(late_count, total_count) THEN "HIGH"
         ELSE "LOW"
    ELSE IF dispute_type = "FRAUD" THEN "CRITICAL"
    ELSE IF dispute_type = "CONTRACT_TERMS" THEN "MEDIUM"
    ELSE "MEDIUM"

\* One call of the analyze_dispute tool on an existing dispute.
invoke_analyze_dispute ==
    /\ req.op = "analyze_dispute"
    /\ resp = NoResp
    /\ resp' = [status |-> "success",
                severity |-> severity_of(req.dispute_type, req.paid_count,
                                         req.total_count, req.late_count)]
    /\ UNCHANGED <<lending, last, dvars, nvars, mvars, rvars, paying, req>>

\* The late fee of an installment of `total` that is `late` days past its
\* due date, in units of 1/LateFeeDivisor: float(total_amount) * 0.0005 *
\* late_days, and 0 unless due_date < today.
late_fee_scaled(total, late) == IF late > 0 THEN total * late ELSE 0

\* What each reader hands out.  process_payment adds the fee as computed to
\* total_due; get_pending_payments and get_overdue_payments report
\* "late_fee": round(late_fee, 0), and get_overdue_payments lists only rows
\* with due_date < today.
late_fee_read(reader, total, late) ==
    IF reader = "get_overdue_payments" /\ late <= 0
    THEN [status |-> "not_listed", late_days |-> 0, late_fee_scaled |-> 0]
    ELSE [status |-> "success",
          late_days |-> IF late > 0 THEN late ELSE 0,
          late_fee_scaled |->
              IF reader = "process_payment"
              THEN late_fee_scaled(total, late)
              ELSE RoundHalfEven(late_fee_scaled(total, late), LateFeeDivisor)
                     * LateFeeDivisor]

\* One evaluation of the late fee of a PENDING installment by a reader.
invoke_late_fee ==
    /\ req.op \in LateFeeReaders
    /\ resp = NoResp
    /\ resp' = late_fee_read(req.op, req.total_amount, req.days_past_due)
    /\ UNCHANGED <<lending, last, dvars, nvars, mvars, rvars, paying, req>>

(* ============================ properties ============================== *)
db == <<balance, loan, contract, sched, legacy, txns>>

InstallmentTxns(k) ==
    {i \in DOMAIN txns : /\ txns[i].transaction_type = "INSTALLMENT"
                         /\ txns[i].payment_schedule = k}

\* C1: at-most-once payment.  Whatever the order of the process_payment
\* calls on an installment, exactly one of them marks it PAID and exactly one
\* INSTALLMENT PaymentTransaction exists for it: an installment has one
\* transaction when it is PAID and none otherwise.
C1_AtMostOncePayment ==
    \A k \in Installments :
        Cardinality(InstallmentTxns(k)) = IF sched[k].status = "PAID" THEN 1 ELSE 0

\* C2: in every step of a wallet payment or payoff operation the paying's
\* debit, the recipient's credit and an installment's transition to paid
\* happen together or not at all.
C2_PaymentAllOrNothing ==
    [][LET debit == balance'[Borrower] < balance[Borrower]
           credit == \E l \in Lenders : balance'[l] > balance[l]
           paid == \/ \E k \in Installments : /\ sched[k].status # "PAID"
                                               /\ sched'[k].status = "PAID"
                   \/ \E k \in Installments : /\ legacy[k].state = "UNPAID"
                                               /\ legacy'[k].state = "PAID"
           payment_step ==
               \/ \E k \in Installments : process_payment_request(k, Borrower, "WALLET")
               \/ early_payoff(Borrower)
               \/ \E k \in Installments : make_payment(k, Borrower)
       IN  payment_step => /\ debit <=> credit
                           /\ debit <=> paid]_vars

\* C3: a COMPLETED contract has no installment row whose status is other
\* than PAID.
C3_CompletedAllPaid ==
    contract.status = "COMPLETED" =>
        \A k \in Installments : RowExists(k) => sched[k].status = "PAID"

\* C4: a contract has PaymentSchedule rows only if both signature flags are
\* true, and the rows are the complete set 1..N of its term.
C4_ScheduleOnlyWhenSignedAndComplete ==
    (\E k \in Installments : RowExists(k)) =>
        /\ contract.borrower_signed /\ contract.lender_signed
        /\ {k \in Installments : RowExists(k)} = 1..contract.months

\* C5: a contract whose status is ACTIVE has both signature flags true, and
\* a sign_contract call that ends with only one party's flag set does not
\* make the contract ACTIVE and leaves a PENDING_SIGNATURES status as it is.
C5_ActiveRequiresBothSignatures ==
    /\ [](contract.status = "ACTIVE" =>
              contract.borrower_signed /\ contract.lender_signed)
    /\ [][\A p \in Parties :
            (/\ sign_contract_save(p)
             /\ ~(contract'.borrower_signed /\ contract'.lender_signed))
            => /\ contract'.status # "ACTIVE"
               /\ contract.status = "PENDING_SIGNATURES"
                    => contract'.status = "PENDING_SIGNATURES"]_vars

\* C5 witness: a completed sign_contract call left the contract ACTIVE with
\* both parties' signatures recorded.
C5_Witness ==
    /\ last = Call("sign_contract", "ok")
    /\ contract.status = "ACTIVE"
    /\ contract.borrower_signed /\ contract.lender_signed

LoanStatuses == {"PENDING", "APPROVED", "FUNDED", "REJECTED", "COMPLETED"}
LoanTransitions ==
    {<<"PENDING", "APPROVED">>, <<"PENDING", "REJECTED">>,
     <<"APPROVED", "FUNDED">>, <<"FUNDED", "COMPLETED">>}

\* C6: a LoanRequest's status is one of PENDING, APPROVED, FUNDED, REJECTED,
\* COMPLETED, and once the request exists its status changes only along
\* PENDING->APPROVED, PENDING->REJECTED, APPROVED->FUNDED, FUNDED->COMPLETED.
C6_LoanStatusMachine ==
    /\ [](loan.status # "NONE" => loan.status \in LoanStatuses)
    /\ [][(loan.status # "NONE" /\ loan'.status # loan.status)
            => <<loan.status, loan'.status>> \in LoanTransitions]_vars

\* C7: once an installment is PAID, its status, paid_amount, paid_date,
\* late_fee and late_days never change again.
C7_PaidIsFinal ==
    [][\A k \in Installments :
          sched[k].status = "PAID" => sched'[k] = sched[k]]_vars

\* C8: a process_payment call by the borrower with an amount below the
\* installment's total plus its accrued late fee fails with the
\* insufficient-payment error and changes no balance, installment, contract,
\* loan or ledger entry.
C8_InsufficientPaymentRejected ==
    [][(last'.op = "process_payment" /\ UNCHANGED <<today, legacy, signer>>) =>
         \A k \in Installments, m \in PaymentMethods :
            \A a \in PayAmounts(k) :
               (/\ RowExists(k)
                /\ a < total_amount(k) + LateFee(k, today)
                /\ process_payment(k, Borrower, a, m))
               => /\ last' = Call("process_payment", "insufficient_payment")
                  /\ UNCHANGED db]_vars

\* C8 witness: an insufficient payment was rejected on an installment that
\* is overdue, so that the late fee is part of what was owed.
C8_Witness ==
    /\ last = Call("process_payment", "insufficient_payment")
    /\ \E k \in Installments : /\ sched[k].status = "PENDING"
                               /\ LateFee(k, today) > 0

\* C9: the step in which a payment makes a contract's last unpaid
\* installment paid also sets the contract to COMPLETED and its loan request
\* to COMPLETED.
C9_LastPaymentCompletes ==
    [][(\/ /\ \E k \in Installments : /\ sched[k].status = "PENDING"
                                      /\ sched'[k].status = "PAID"
           /\ \A j \in Installments : sched'[j].status # "PENDING"
        \/ /\ \E k \in Installments : /\ legacy[k].state = "UNPAID"
                                      /\ legacy'[k].state = "PAID"
           /\ \A j \in Installments : legacy'[j].state # "UNPAID")
       => /\ contract'.status = "COMPLETED"
          /\ loan'.status = "COMPLETED"]_vars

\* C10: an early_payoff by the borrower whose balance covers the quoted
\* payoff is accepted: every PENDING installment becomes PAID, exactly one
\* EARLY_PAYOFF transaction is recorded, and the contract and its loan
\* request become COMPLETED.
C10_EarlyPayoffSettles ==
    [][(/\ early_payoff(Borrower)
        /\ PendingRows # {}
        /\ balance[Borrower] >= calculate_early_payoff(today).total_payoff_amount)
       => /\ \A k \in PendingRows : sched'[k].status = "PAID"
          /\ Len(txns') = Len(txns) + 1
          /\ txns'[Len(txns')].transaction_type = "EARLY_PAYOFF"
          /\ contract'.status = "COMPLETED"
          /\ loan'.status = "COMPLETED"]_vars

\* C11: a loan request has at most one contract, and once no invest_in_loan
\* request is in flight the loan amount has left exactly one lender (the
\* contract's) and reached the borrower exactly once, or has not moved at
\* all when no contract was created.
C11_OneContractOneTransfer ==
    (\A t \in InvestThreads : investor[t].pc = "idle") =>
        LET moved == IF contract.exists THEN loan.amount ELSE 0
        IN  /\ balance[Borrower] = InitialBalance[Borrower] + moved
            /\ \A l \in Lenders :
                  balance[l] = InitialBalance[l]
                               - (IF contract.lender = l THEN moved ELSE 0)

\* C12: every step in which an installment payment or an early payoff
\* succeeds (an installment becomes paid, or the call reports success)
\* appends exactly one PaymentTransaction naming the borrower as payer and
\* the lender as recipient with the amount, late fee and late days of the
\* payment, and every step leaves the existing transactions as they were.
C12_LedgerAppendOnly ==
    [][LET paid_step ==
               \/ \E k \in Installments : /\ sched[k].status # "PAID"
                                           /\ sched'[k].status = "PAID"
               \/ \E k \in Installments : /\ legacy[k].state = "UNPAID"
                                           /\ legacy'[k].state = "PAID"
               \/ /\ last' # last
                  /\ last' \in {Call("process_payment", "ok"),
                                Call("early_payoff", "ok")}
       IN  /\ Len(txns') >= Len(txns)
           /\ SubSeq(txns', 1, Len(txns)) = txns
           /\ paid_step =>
                 /\ Len(txns') = Len(txns) + 1
                 /\ txns'[Len(txns')].payer = Borrower
                 /\ txns'[Len(txns')].recipient = contract.lender
                 /\ txns'[Len(txns')].amount > 0]_vars

DisputeAdvances ==
    {<<"OPEN", "IN_REVIEW">>, <<"OPEN", "ESCALATED">>, <<"OPEN", "RESOLVED">>,
     <<"IN_REVIEW", "ESCALATED">>, <<"IN_REVIEW", "RESOLVED">>,
     <<"ESCALATED", "IN_REVIEW">>, <<"ESCALATED", "RESOLVED">>}

\* C13: a dispute's status only moves forward (OPEN, then IN_REVIEW, then
\* RESOLVED, with ESCALATED possible before RESOLVED); once RESOLVED its
\* status and resolution fields never change, and every later attempt to
\* resolve or re-open it returns an error.
C13_DisputeMonotoneAndFinal ==
    [][/\ (dispute.status # "NONE" /\ dispute'.status # dispute.status)
            => <<dispute.status, dispute'.status>> \in DisputeAdvances
       /\ dispute.status = "RESOLVED"
            => /\ dispute' = dispute
               /\ last'.op \in {"resolve_dispute", "legacy_resolve_dispute",
                                "legacy_update_dispute"}
                    => last'.result \in {"already_resolved", "error"}]_vars

\* C14: a daily payment check run on a day on which the check already ran,
\* with no payment in between, has no further effect: it sends no second
\* reminder for any installment and charges or raises no late fee.
C14_SecondCheckNoEffect ==
    [][(run_payment_check /\ monitor_day = today)
         => /\ notifications' = notifications
            /\ UNCHANGED <<sched, balance, txns>>]_vars

\* The LenderMatchResult rows that hold exactly the list ms.
RowsOf(ms) ==
    [u \in PoolUsers |->
       IF \E i \in 1..Len(ms) : ms[i].lender = u
         THEN ms[CHOOSE i \in 1..Len(ms) : ms[i].lender = u].match_score
         ELSE NoMatch]

\* C15: once the matching runs for the loan have ended, however they
\* interleaved, the persisted LenderMatchResult rows are exactly the complete
\* list of one of the runs: not a mixture of two runs, not a part of a list.
C15_RowsAreOneRunsOutput ==
    (/\ \A t \in MatchThreads : matcher[t].pc \in {"idle", "done"}
     /\ \E t \in MatchThreads : matcher[t].pc = "done")
      => \E t \in MatchThreads : /\ matcher[t].pc = "done"
                                  /\ rows = RowsOf(matcher[t].matches)

\* The lenders a run of the given kind scores, and the score it computes.
Scored(kind) ==
    IF kind = "agent" THEN find_potential_lenders
    ELSE {u \in PoolUsers : pool[u] # "none" /\ u # Borrower}

ComputedScore(kind, u) ==
    IF kind = "agent" THEN calculate_match(u) ELSE calculate_match_score(u)

Completes(t) == matcher[t].pc # "done" /\ matcher'[t].pc = "done"

\* C16: no persisted LenderMatchResult row has a match_score below 50, and
\* when a matching run completes, every lender it scored at exactly 50 has a
\* persisted row with that score.
C16_ThresholdRespected ==
    [][/\ \A u \in PoolUsers : rows'[u] # NoMatch => rows'[u] >= 500
       /\ \A t \in MatchThreads :
            (Completes(t) /\ matcher'[t].result = "ok")
              => \A u \in Scored(matcher[t].kind) :
                    ComputedScore(matcher[t].kind, u) = 500 => rows'[u] = 500
      ]_vars

\* A service run has completed and left a row whose score is exactly 50,
\* while another scored lender, below 50, has none.
C16_Witness ==
    /\ matcher["svc"].pc = "done"
    /\ matcher["svc"].result = "ok"
    /\ NoRunInFlight
    /\ \E u \in PoolUsers : rows[u] = 500 /\ calculate_match_score(u) = 500
    /\ \E u \in PoolUsers : /\ pool[u] # "none"
                             /\ u # Borrower
                             /\ calculate_match_score(u) < 500
                             /\ rows[u] = NoMatch

C18_HardConstraints ==
    /\ \A u \in PoolUsers :
          (rows[u] # NoMatch \/ find_matching_loans(u))
            => /\ pool[u] # "none"
               /\ AmountInRange(LenderProfile(pool[u]))
               /\ DurationInRange(LenderProfile(pool[u]))
               /\ u # Borrower

\* C19: once the scoring runs for the borrower have ended, however they
\* interleaved, the borrower's BorrowerRiskProfile row exists and holds the
\* credit_score and the risk_level computed by the most recent run (the run
\* whose AgentLog row is the last one).
C19_ProfileReflectsLatestRun ==
    (/\ \A t \in ScoreThreads : scorer[t].pc \in {"idle", "done"}
     /\ runs # <<>>)
      => /\ risk_profile.exists
         /\ risk_profile.credit_score = runs[Len(runs)].credit_score
         /\ risk_profile.risk_level = runs[Len(runs)].risk_level

\* C20: a persisted BorrowerRiskProfile has 0 <= credit_score <= 1000 and
\* its risk_level is the tier of the threshold table: VERY_LOW from 800,
\* LOW from 650, MEDIUM from 500, HIGH from 350, VERY_HIGH below 350.
C20_ScoreBoundedAndTiered ==
    risk_profile.exists =>
      LET cs == risk_profile.credit_score
          rl == risk_profile.risk_level
      IN  /\ 0 <= cs /\ cs <= 1000
          /\ rl = "VERY_LOW" <=> cs >= 800
          /\ rl = "LOW" <=> (650 <= cs /\ cs < 800)
          /\ rl = "MEDIUM" <=> (500 <= cs /\ cs < 650)
          /\ rl = "HIGH" <=> (350 <= cs /\ cs < 500)
          /\ rl = "VERY_HIGH" <=> cs < 350

\* Sum of the principal payments of a returned schedule.
RECURSIVE PrincipalSum(_, _)
PrincipalSum(schedule, k) ==
    IF k = 0 THEN 0
    ELSE schedule[k].principal_payment + PrincipalSum(schedule, k - 1)

\* C21: for valid arguments (principal > 0, months > 0) and either method,
\* the principal payments of the schedule calculate_loan_schedule returns
\* sum to the principal within one currency unit.
C21_PrincipalSumsToPrincipal ==
    (/\ req.op = "calculate_loan_schedule"
     /\ resp # NoResp
     /\ req.principal > 0
     /\ req.duration_months > 0)
      => /\ resp.status = "success"
         /\ Len(resp.schedule) = req.duration_months
         /\ PrincipalSum(resp.schedule, Len(resp.schedule)) - req.principal
              \in {-1, 0, 1}

\* C22: calculate_loan_schedule called with months <= 0 or principal <= 0
\* returns an InvalidArgument error and no schedule; it neither reports
\* success nor raises.
C22_InvalidArgumentsRejected ==
    (/\ req.op = "calculate_loan_schedule"
     /\ resp # NoResp
     /\ (req.principal <= 0 \/ req.duration_months <= 0))
      => /\ resp.status = "InvalidArgument"
         /\ resp.schedule = <<>>

\* C23: a scoring run during which the OCR or LLM collaborator is
\* unavailable or answers unparseably still computes and persists the risk
\* profile from the deterministic factors and does not report failure.
C23_CollaboratorFaultTolerated ==
    [][\A fault \in CollaboratorFaults :
         (run_borrower_profiler_fault(fault) \/ legacy_profiler_fault(fault))
           => /\ last'.result # "error"
              /\ risk_profile'.exists
              /\ risk_profile'.credit_score
                   = assess_risk(facts, NoLoan).credit_score
              /\ risk_profile'.risk_level
                   = assess_risk(facts, NoLoan).risk_level
      ]_vars

\* C24: analyze_dispute classifies FRAUD as CRITICAL; PAYMENT as HIGH when
\* no installment is paid or more than half of the installments are late and
\* as LOW otherwise; CONTRACT_TERMS and every other type as MEDIUM.
C24_SeverityClassification ==
    (req.op = "analyze_dispute" /\ resp # NoResp)
      => /\ resp.status = "success"
         /\ req.dispute_type = "FRAUD" => resp.severity = "CRITICAL"
         /\ req.dispute_type = "PAYMENT"
              => resp.severity
                   = IF req.paid_count = 0
                        \/ 2 * req.late_count > req.total_count
                     THEN "HIGH" ELSE "LOW"
         /\ req.dispute_type \notin {"FRAUD", "PAYMENT"}
              => resp.severity = "MEDIUM"

\* A PAYMENT dispute on a contract with exactly half of its installments
\* late, some of them paid, was classified LOW.
C24_Witness ==
    /\ req.op = "analyze_dispute"
    /\ resp # NoResp
    /\ req.dispute_type = "PAYMENT"
    /\ req.paid_count > 0
    /\ 2 * req.late_count = req.total_count
    /\ resp.severity = "LOW"

\* C25: the late fee process_payment applies and the pending / overdue
\* queries report for an installment equals total_amount * 0.0005 *
\* lateDays with lateDays = max(0, today - due_date), hence 0 when the
\* installment is not past due.
C25_LateFeeFormula ==
    (req.op \in LateFeeReaders /\ resp # NoResp /\ resp.status = "success")
      => LET lateDays == IF req.days_past_due > 0 THEN req.days_past_due
                         ELSE 0
         IN /\ resp.late_days = lateDays
            /\ resp.late_fee_scaled = req.total_amount * lateDays

\* C26: investments leave the sum of all wallet balances unchanged: once
\* every invest_in_loan request has returned, and one of them has created
\* the contract, the balances still add up to what they added up to before.
C26_WalletSumConserved ==
    (/\ \A t \in InvestThreads : investor[t].pc = "idle"
     /\ contract.exists)
      => SumOver(Users, balance) = SumOver(Users, InitialBalance)

\* C27: invest_in_loan requests that do not end with a created contract
\* leave the wallets as they were: once every request has returned and the
\* loan has no LoanContract, lender and borrower hold their balances from
\* before the requests.
C27_FailedInvestmentRestores ==
    (/\ \A t \in InvestThreads : investor[t].pc = "idle"
     /\ ~contract.exists)
      => balance = InitialBalance

\* C28: the amount an early payoff debits is the payoff total (remaining
\* principal + 50% of remaining interest + late fees) of exactly the
\* installments that step turns from PENDING to PAID, and no installment is
\* paid for twice: every recorded installment payment pays an installment
\* that was still PENDING.
C28_PayoffCoversOwnInstallments ==
    [][LET moved == {k \in Installments : /\ sched[k].status = "PENDING"
                                          /\ sched'[k].status = "PAID"}
           recorded == Len(txns') = Len(txns) + 1
       IN  /\ (recorded /\ txns'[Len(txns')].transaction_type = "EARLY_PAYOFF")
                => /\ moved = PendingRows
                   /\ balance[Borrower] - balance'[Borrower]
                        = calculate_early_payoff(today).total_payoff_amount
           /\ (recorded /\ txns'[Len(txns')].transaction_type = "INSTALLMENT")
                => txns'[Len(txns')].payment_schedule \in moved
      ]_vars

\* C29: a sign_contract call on a contract that is already ACTIVE or
\* COMPLETED changes nothing: none of its statements adds or alters a
\* PaymentSchedule row or changes the status of the contract or of its loan
\* request.
C29_ResignChangesNothing ==
    [][(/\ contract.status \in {"ACTIVE", "COMPLETED"}
        /\ \E p \in Parties : \/ sign_contract_fund(p)
                               \/ sign_contract_row(p)
                               \/ sign_contract_save(p))
       => /\ sched' = sched
          /\ contract'.status = contract.status
          /\ loan'.status = loan.status]_vars

\* C30: whatever the order and overlap of deposit, withdraw, invest_in_loan,
\* installment payment and early payoff requests, no wallet balance is
\* ever negative.
C30_BalancesNonNegative == \A u \in Users : balance[u] >= 0

\* Two overlapping make_payment requests have both written the borrower's
\* wallet, down to nothing.
C30_Witness ==
    /\ \A t \in PayThreads : paying[t].pc = "credit"
    /\ balance[Borrower] = 0

Next ==
    \/ Tick
    \/ create_loan_request
    \/ approve_loan
    \/ \E t \in MainInvestThreads : invest_in_loan_begin(t)
    \/ \E t \in MainInvestThreads : invest_in_loan_debit(t)
    \/ \E t \in MainInvestThreads : invest_in_loan_credit(t)
    \/ \E t \in MainInvestThreads : invest_in_loan_contract(t)
    \/ \E p \in Parties : sign_contract_begin(p)
    \/ \E p \in Parties : sign_contract_fund(p)
    \/ \E p \in Parties : sign_contract_row(p)
    \/ \E p \in Parties : sign_contract_save(p)
    \/ \E k \in Installments, u \in Users, m \in PaymentMethods :
          process_payment_request(k, u, m)
    \/ \E u \in Users : early_payoff(u)
    \/ \E l \in Lenders : legacy_contract_process(l)
    \/ \E k \in Installments : mark_payment_completed(k)
    \/ \E k \in Installments, u \in Users : make_payment(k, u)

Spec == Init /\ [][Next]_vars

\* Concurrent investment requests on one loan.
NextInvest ==
    \/ create_loan_request
    \/ approve_loan
    \/ \E t \in InvestThreads : invest_in_loan_begin(t)
    \/ \E t \in InvestThreads : invest_in_loan_debit(t)
    \/ \E t \in InvestThreads : invest_in_loan_credit(t)
    \/ \E t \in InvestThreads : invest_in_loan_contract(t)

SpecInvest == Init /\ [][NextInvest]_vars

\* Investment requests on a loan whose borrower's KYC status changes.
NextRollback ==
    \/ create_loan_request
    \/ \E k \in KycFactors : save_kyc_verification_result(k)
    \/ \E t \in InvestThreads : invest_in_loan_begin(t)
    \/ \E t \in InvestThreads : invest_in_loan_debit(t)
    \/ \E t \in InvestThreads : invest_in_loan_credit(t)
    \/ \E t \in InvestThreads : invest_in_loan_contract(t)

SpecRollback == Init /\ [][NextRollback]_vars

\* Signing and paying requests served one after the other: a request starts
\* only when no sign_contract call is between its first and last statement.
NoSignInFlight == \A p \in Parties : signer[p].pc = "idle"

NextSignSeq ==
    \/ create_loan_request
    \/ \E t \in MainInvestThreads : invest_in_loan_begin(t)
    \/ \E t \in MainInvestThreads : invest_in_loan_debit(t)
    \/ \E t \in MainInvestThreads : invest_in_loan_credit(t)
    \/ \E t \in MainInvestThreads : invest_in_loan_contract(t)
    \/ \E p \in Parties : NoSignInFlight /\ sign_contract_begin(p)
    \/ \E p \in Parties : sign_contract_fund(p)
    \/ \E p \in Parties : sign_contract_row(p)
    \/ \E p \in Parties : sign_contract_save(p)
    \/ \E k \in Installments, u \in Users, m \in PaymentMethods :
          NoSignInFlight /\ process_payment_request(k, u, m)

SpecSignSeq == Init /\ [][NextSignSeq]_vars

\* Wallet requests of every kind, overlapping.
NextWallet ==
    \/ create_loan_request
    \/ \E t \in MainInvestThreads : invest_in_loan_begin(t)
    \/ \E t \in MainInvestThreads : invest_in_loan_debit(t)
    \/ \E t \in MainInvestThreads : invest_in_loan_credit(t)
    \/ \E t \in MainInvestThreads : invest_in_loan_contract(t)
    \/ \E p \in Parties : NoSignInFlight /\ sign_contract_begin(p)
    \/ \E p \in Parties : sign_contract_fund(p)
    \/ \E p \in Parties : sign_contract_row(p)
    \/ \E p \in Parties : sign_contract_save(p)
    \/ \E k \in Installments, u \in Users :
          process_payment_request(k, u, "WALLET")
    \/ \E u \in Users : early_payoff(u)
    \/ \E l \in Lenders : legacy_contract_process(l)
    \/ \E t \in PayThreads, k \in Installments, u \in Users :
          make_payment_begin(t, k, u)
    \/ \E t \in PayThreads : make_payment_debit(t)
    \/ \E t \in PayThreads : make_payment_credit(t)
    \/ \E u \in Users, a \in WalletAmounts : deposit(u, a)
    \/ \E u \in Users, a \in WalletAmounts : withdraw(u, a)

SpecWallet == Init /\ [][NextWallet]_vars

\* A contract is funded and a dispute on it is handled.
NextDispute ==
    \/ create_loan_request
    \/ \E t \in MainInvestThreads : invest_in_loan_begin(t)
    \/ \E t \in MainInvestThreads : invest_in_loan_debit(t)
    \/ \E t \in MainInvestThreads : invest_in_loan_credit(t)
    \/ \E t \in MainInvestThreads : invest_in_loan_contract(t)
    \/ create_dispute
    \/ add_dispute_evidence
    \/ \E rt \in ResolutionTypes, n \in ResolutionNotes, r \in RefundAmounts :
          resolve_dispute(rt, n, r)
    \/ \E e \in BOOLEAN : legacy_update_dispute(e)
    \/ \E n \in ResolutionNotes : legacy_resolve_dispute(n)

SpecDispute == Init /\ [][NextDispute]_vars

\* A contract is funded and signed, days pass, and the daily check runs;
\* no payment is made.
NextMonitor ==
    \/ Tick
    \/ create_loan_request
    \/ \E t \in MainInvestThreads : invest_in_loan_begin(t)
    \/ \E t \in MainInvestThreads : invest_in_loan_debit(t)
    \/ \E t \in MainInvestThreads : invest_in_loan_credit(t)
    \/ \E t \in MainInvestThreads : invest_in_loan_contract(t)
    \/ \E p \in Parties : sign_contract_begin(p)
    \/ \E p \in Parties : sign_contract_fund(p)
    \/ \E p \in Parties : sign_contract_row(p)
    \/ \E p \in Parties : sign_contract_save(p)
    \/ run_payment_check

SpecMonitor == Init /\ [][NextMonitor]_vars

\* Matching: lenders edit their profiles, the borrower's loan is created,
\* and the service run of create_loan_request and an agent run interleave
\* statement by statement.
NextMatch ==
    \/ create_loan_request
    \/ \E u \in PoolUsers, kind \in ProfileKinds : set_lender_profile(u, kind)
    \/ \E t \in MainAgentThreads : lender_matcher_begin(t)
    \/ notify_matching_lenders_begin
    \/ \E t \in MatchThreads : save_matches_delete(t)
    \/ \E t \in MatchThreads : save_matches_create(t)

SpecMatch == Init /\ [][NextMatch]_vars

\* Matching runs one after another over a lender pool that no longer
\* changes once the loan exists.
NextMatchSeq ==
    \/ create_loan_request
    \/ /\ loan.status = "NONE"
       /\ \E u \in PoolUsers, kind \in ProfileKinds : set_lender_profile(u, kind)
    \/ NoRunInFlight /\ \E t \in AgentThreads : lender_matcher_begin(t)
    \/ NoRunInFlight /\ notify_matching_lenders_begin
    \/ \E t \in MatchThreads : save_matches_delete(t)
    \/ \E t \in MatchThreads : save_matches_create(t)

SpecMatchSeq == Init /\ [][NextMatchSeq]_vars

\* Risk scoring: the borrower's facts change and profiler runs interleave.
NextRisk ==
    \/ create_loan_request
    \/ \E income \in MonthlyIncomes : kyc_view(income)
    \/ \E k \in KycFactors : save_kyc_verification_result(k)
    \/ \E t \in ScoreThreads : run_borrower_profiler_begin(t)
    \/ \E t \in ScoreThreads : legacy_profiler_begin(t)
    \/ \E t \in ScoreThreads : risk_profile_save(t)

SpecRisk == Init /\ [][NextRisk]_vars

\* analyze_dispute over drawn dispute types and the counts of a contract's
\* rows: late_days is written when a row is paid, so the late rows are among
\* the paid rows.
InitSeverity ==
    /\ InitRows
    /\ req \in {r \in [op : {"analyze_dispute"}, dispute_type : DisputeTypes,
                       total_count : 0..MaxRowCount,
                       paid_count : 0..MaxRowCount,
                       late_count : 0..MaxRowCount] :
                  r.late_count <= r.paid_count
                    /\ r.paid_count <= r.total_count}
    /\ resp = NoResp

SpecSeverity == InitSeverity /\ [][invoke_analyze_dispute]_vars

\* The late fee readers over drawn installments and dates.
InitLateFee ==
    /\ InitRows
    /\ req \in [op : LateFeeReaders, total_amount : InstallmentTotals,
                 days_past_due : DaysPastDue]
    /\ resp = NoResp

SpecLateFee == InitLateFee /\ [][invoke_late_fee]_vars

\* Profiler runs with a failing OCR / LLM collaborator.
NextProfiler ==
    \/ create_loan_request
    \/ \E income \in MonthlyIncomes : kyc_view(income)
    \/ \E k \in KycFactors : save_kyc_verification_result(k)
    \/ \E t \in MainScoreThreads : run_borrower_profiler_begin(t)
    \/ \E t \in MainScoreThreads : legacy_profiler_begin(t)
    \/ \E t \in MainScoreThreads : risk_profile_save(t)
    \/ \E fault \in CollaboratorFaults : run_borrower_profiler_fault(fault)
    \/ \E fault \in CollaboratorFaults : legacy_profiler_fault(fault)

SpecProfiler == Init /\ [][NextProfiler]_vars

\* calculate_loan_schedule over drawn arguments.
InitSchedule ==
    /\ InitRows
    /\ req \in [op : {"calculate_loan_schedule"},
                 principal : SchedulePrincipals,
                 interest_rate : ScheduleRates,
                 duration_months : ScheduleMonths,
                 payment_method : PaymentPlans]
    /\ resp = NoResp

SpecSchedule == InitSchedule /\ [][invoke_calculate_loan_schedule]_vars
====
